---- MODULE Spec2Model ----
(***************************************************************************)
(* Model of the daily-issue lifecycle and draft-promotion state machine    *)
(* of scripts/manage_issues.js, scripts/main.js, scripts/utils.js and      *)
(* scripts/generate_reminder.js.                                           *)
(*                                                                         *)
(* Text is a sequence of tokens.  A token is a one-character string, or a  *)
(* longer string standing for a piece of text that no searched pattern     *)
(* straddles (the drafts header word, the placeholder opening, the fixed   *)
(* marker phrase, template prose).  The string operations of the code      *)
(* (indexOf, substring, trim, split, includes, toLowerCase and the two     *)
(* regular expressions) are computed on these sequences.                   *)
(*                                                                         *)
(* The issue tracker is the only durable state: a list of issues and a     *)
(* list of comments.  A failed attempt of a tracker call has no effect on  *)
(* the tracker.  Comments written by the automation have author type       *)
(* "Bot", as under the workflow's own token.                               *)
(***************************************************************************)
EXTENDS Integers, Sequences, FiniteSets, TLC

\* ------------------------------------------------------------------ bounds

\* number of orchestrator runs plus human actions (edit, react, comment,
\* close, date change) in one behaviour
MaxSteps == 4
\* largest attempt count given to a stand-alone call of retry()
MaxAttempts == 3
\* largest number of lines after the drafts header of an extracted body
MaxLines == 3

\* ------------------------------------------------------------------ text

Min(S) == CHOOSE x \in S : \A y \in S : x <= y
Max(S) == CHOOSE x \in S : \A y \in S : x >= y

\* pat occurs in s at the 0-based offset i
StartsAt(s, pat, i) ==
  /\ i + Len(pat) <= Len(s)
  /\ \A k \in 1..Len(pat) : s[i + k] = pat[k]

\* String.prototype.indexOf: the first 0-based offset of pat in s, or -1
IndexOf(s, pat) ==
  LET hits == {i \in 0..Len(s) : StartsAt(s, pat, i)}
  IN  IF hits = {} THEN -1 ELSE Min(hits)

\* String.prototype.includes
Includes(s, pat) == IndexOf(s, pat) # -1

\* String.prototype.substring(from) and substring(from, to), 0-based, to excluded
SubstringFrom(s, from) == SubSeq(s, from + 1, Len(s))
Substring(s, from, to) == SubSeq(s, from + 1, to)

IsWhitespace(c) == c \in {" ", "\n", "\t"}
IsDigit(c) == c \in {"0", "1", "2", "3", "4", "5", "6", "7", "8", "9"}

\* String.prototype.trim
Trim(s) ==
  LET keep == {i \in 1..Len(s) : ~IsWhitespace(s[i])}
  IN  IF keep = {} THEN <<>> ELSE SubSeq(s, Min(keep), Max(keep))

\* String.prototype.split("\n")
RECURSIVE SplitLines(_)
SplitLines(s) ==
  LET nl == IndexOf(s, <<"\n">>)
  IN  IF nl = -1 THEN <<s>>
      ELSE <<Substring(s, 0, nl)>> \o SplitLines(SubstringFrom(s, nl + 1))

UpperLetters ==
  <<"A", "B", "C", "D", "E", "F", "G", "H", "I", "J", "K", "L", "M",
    "N", "O", "P", "Q", "R", "S", "T", "U", "V", "W", "X", "Y", "Z">>
LowerLetters ==
  <<"a", "b", "c", "d", "e", "f", "g", "h", "i", "j", "k", "l", "m",
    "n", "o", "p", "q", "r", "s", "t", "u", "v", "w", "x", "y", "z">>

LowerChar(c) ==
  IF \E i \in 1..Len(UpperLetters) : UpperLetters[i] = c
  THEN LowerLetters[CHOOSE i \in 1..Len(UpperLetters) : UpperLetters[i] = c]
  ELSE c

\* String.prototype.toLowerCase
ToLowerCase(s) == [i \in 1..Len(s) |-> LowerChar(s[i])]

\* length of the list prefix (-|\*|\d+\.) at the start of line, 0 when none
RECURSIVE DigitRun(_, _)
DigitRun(line, from) ==
  IF from <= Len(line) /\ IsDigit(line[from]) THEN 1 + DigitRun(line, from + 1) ELSE 0

ListPrefixLen(line) ==
  IF Len(line) >= 1 /\ line[1] \in {"-", "*"} THEN 1
  ELSE LET d == DigitRun(line, 1)
       IN  IF d >= 1 /\ Len(line) > d /\ line[d + 1] = "." THEN d + 1 ELSE 0

\* number of whitespace characters of line from position from on (\s+)
RECURSIVE WhitespaceRun(_, _)
WhitespaceRun(line, from) ==
  IF from <= Len(line) /\ IsWhitespace(line[from])
  THEN 1 + WhitespaceRun(line, from + 1) ELSE 0

\* mutant: the whitespace after the prefix is optional
MatchesListItem_SpaceOptional(line) ==
  LET p == ListPrefixLen(line)
  IN  p > 0 /\ Len(line) >= p + 1

\* line.match(/^(-|\*|\d+\.)\s+.+/): a prefix, at least one whitespace
\* character, and at least one more character after one whitespace character
MatchesListItem(line) ==
  LET p == ListPrefixLen(line)
  IN  /\ p > 0
      /\ WhitespaceRun(line, p + 1) >= 1
      /\ Len(line) >= p + 2

\* draft.replace(/^(-|\*|\d+\.)\s+/, "").trim()
DraftTitle(draft) ==
  LET p == ListPrefixLen(draft)
      w == IF p > 0 THEN WhitespaceRun(draft, p + 1) ELSE 0
  IN  IF p > 0 /\ w >= 1 THEN Trim(SubstringFrom(draft, p + w)) ELSE Trim(draft)

\* ------------------------------------------------------------- constants

DAILY_ISSUE_LABEL == "daily-task-summary"
DAILY_ISSUE_TITLE_PREFIX == "Task Status"
\* "## " followed by the Japanese words for "memo / drafts", kept as one token
DRAFT_SECTION_HEADER == <<"#", "#", " ", "memo-drafts">>
SUB_ISSUE_LABEL == "sub-issue"
SECTION_MARK == <<"#", "#">>
PLACEHOLDER_OPENING == <<"<!-- Add any draft notes">>
\* the Japanese phrase "creation of child issues from the drafts section"
CONFIRMATION_MARKER == <<"creation-of-child-issues-from-drafts">>
THUMBS_UP == "+1"
\* the retries argument of every retry(...) call
RETRIES == 3

\* current UTC dates (getCurrentDateUTC), in calendar order
Dates == <<"2024-08-14", "2024-08-15">>

\* ------------------------------------------------------- draft extraction

\* issueBody.indexOf(DRAFT_SECTION_HEADER) !== -1
HasDraftSection(issueBody) == IndexOf(issueBody, DRAFT_SECTION_HEADER) # -1

\* the text after the header up to the next "##" (or the end), trimmed
DraftsContent(issueBody) ==
  LET draftSectionIndex == IndexOf(issueBody, DRAFT_SECTION_HEADER)
      draftText == SubstringFrom(issueBody, draftSectionIndex + Len(DRAFT_SECTION_HEADER))
      nextSectionIndex == IndexOf(draftText, SECTION_MARK)
  IN  IF nextSectionIndex # -1
      THEN Trim(Substring(draftText, 0, nextSectionIndex))
      ELSE Trim(draftText)

\* !draftsContent || draftsContent.includes("<!-- Add any draft notes")
NoDraftContent(draftsContent) ==
  draftsContent = <<>> \/ Includes(draftsContent, PLACEHOLDER_OPENING)

\* split("\n").map(trim).filter(match)
DraftLines(draftsContent) ==
  LET lines == SplitLines(draftsContent)
      trimmed == [j \in 1..Len(lines) |-> Trim(lines[j])]
  IN  SelectSeq(trimmed, MatchesListItem)

\* ---------------------------------------------------------------- titles

TitleRefactor ==
  <<"R", "e", "f", "a", "c", "t", "o", "r", " ", "d", "a", "t", "a", "b", "a", "s", "e", " ", "m", "o", "d", "u", "l", "e">>
TitleRefactorLower ==
  <<"r", "e", "f", "a", "c", "t", "o", "r", " ", "d", "a", "t", "a", "b", "a", "s", "e", " ", "m", "o", "d", "u", "l", "e">>
TitleRefactorFurther ==
  <<"R", "e", "f", "a", "c", "t", "o", "r", " ", "d", "a", "t", "a", "b", "a", "s", "e", " ", "m", "o", "d", "u", "l", "e", " ", "f", "u", "r", "t", "h", "e", "r">>
TitleDatabaseModule ==
  <<"D", "a", "t", "a", "b", "a", "s", "e", " ", "M", "o", "d", "u", "l", "e">>
TitleDoA == <<"D", "o", " ", "A">>
TitleDoB == <<"D", "o", " ", "B">>
TitleDoC == <<"D", "o", " ", "C">>

\* ------------------------------------------------------- tracker contents

\* `${DAILY_ISSUE_TITLE_PREFIX} ${today}`
ExpectedTitle(today) == <<DAILY_ISSUE_TITLE_PREFIX, " ", today>>

HtmlUrl(number) == "https://github.com/owner/repo/issues/" \o ToString(number)

\* the template body of a new daily issue
DailyIssueBody(today) ==
  <<"#", " ">> \o ExpectedTitle(today) \o
  <<"\n", "\n", "This issue automatically tracks tasks and reminders for", " ", today, ".",
    "\n", "\n", "Please add any relevant notes or drafts below under the designated sections.",
    "\n", "\n", "#", "#", " ", "Reminders & Suggestions", "\n", "\n", "*No updates yet.*",
    "\n", "\n", "#", "#", " ", "Metrics & Status", "\n", "\n", "*No updates yet.*",
    "\n", "\n">> \o DRAFT_SECTION_HEADER \o <<"\n", "\n">> \o PLACEHOLDER_OPENING \o
  <<" or task ideas here. They will be processed into sub-issues if needed. -->", "\n", "\n">>

\* the body of the summary comment
SummaryCommentBody ==
  <<"#", "#", "#", " ", "automatic task update", "\n", "\n", "reminder text", "\n", "\n",
    "action suggestions text", "\n", "\n", "-", "-", "-", "\n", "generated automatically">>

\* draftLines.map((line, i) => `${i + 1}. ${line}`).join("\n")
RECURSIVE NumberedList(_, _)
NumberedList(draftLines, from) ==
  IF from > Len(draftLines) THEN <<>>
  ELSE <<ToString(from), ".", " ">> \o draftLines[from] \o
       (IF from < Len(draftLines) THEN <<"\n">> ELSE <<>>) \o
       NumberedList(draftLines, from + 1)

\* the body of the confirmation request
ConfirmationBody(draftLines) ==
  <<"#", "#", "#", " ">> \o CONFIRMATION_MARKER \o
  <<"\n", "\n", "found in the drafts section:", " ", ToString(Len(draftLines)), " ",
    "items; add a thumbs up reaction to this comment to create them", "\n", "\n",
    "*", "*", "draft items:", "*", "*", "\n">> \o NumberedList(draftLines, 1) \o
  <<"\n", "\n", "*", "no child issue is created until the reaction is added", "*">>

\* the body of a sub-issue
SubIssueBody(today, issueNumber, htmlUrl, draftTitle) ==
  <<"#", "#", "#", " ", "background", "\n", "generated from the drafts section of", " ",
    "[", DAILY_ISSUE_TITLE_PREFIX, " ", today, " ", "(", "#", ToString(issueNumber), ")",
    "]", "(", htmlUrl, ")", "\n", "\n", "#", "#", "#", " ", "details", "\n">> \o draftTitle \o
  <<"\n", "\n", "#", "#", "#", " ", "parent issue", "\n", "#", ToString(issueNumber), "\n">>

\* the body of the announcement comment on the parent issue
ReferenceCommentBody(draftTitle, number) ==
  <<"created sub-issue", " ", "[">> \o draftTitle \o <<"]", ":", " ", "#", ToString(number)>>

\* mutant: the author of the comment is not looked at
IsConfirmation_MarkerOnly(comment) == Includes(comment.body, CONFIRMATION_MARKER)

\* comment.body.includes(marker) && comment.user.type === "Bot"
IsConfirmation(comment) ==
  Includes(comment.body, CONFIRMATION_MARKER) /\ comment.userType = "Bot"

\* mutant: a draft title that contains the existing title matches too
SimilarTitle_EitherDirection(existingTitle, draftTitle) ==
  \/ Includes(ToLowerCase(existingTitle), ToLowerCase(draftTitle))
  \/ Includes(ToLowerCase(draftTitle), ToLowerCase(existingTitle))

\* mutant: the titles are compared as written
SimilarTitle_CaseSensitive(existingTitle, draftTitle) ==
  existingTitle = draftTitle \/ Includes(existingTitle, draftTitle)

\* existingIssue.title.toLowerCase() === draftTitle.toLowerCase() ||
\* existingIssue.title.toLowerCase().includes(draftTitle.toLowerCase())
SimilarTitle(existingTitle, draftTitle) ==
  \/ ToLowerCase(existingTitle) = ToLowerCase(draftTitle)
  \/ Includes(ToLowerCase(existingTitle), ToLowerCase(draftTitle))

\* the stages of main(), in the order of the code
Stages == <<"locate", "collect", "generate", "post", "drafts">>

\* ------------------------------------------------------------------ state

VARIABLES
  issues,      \* the tracker's issues; an issue's number is its index
  comments,    \* the tracker's comments; a comment's id is its index
  clock,       \* index in Dates of the current UTC date
  runs,        \* per run of main(): its position and local variables
  started,     \* number of runs started so far
  humanSteps,  \* number of human actions so far
  call         \* the frame of a function called on its own

vars == <<issues, comments, clock, runs, started, humanSteps, call>>

Runs == {1, 2}

\* no issue located yet
NoIssue == [number |-> 0, html_url |-> ""]

ZeroStats == [processed |-> 0, created |-> 0, existed |-> 0]

\* the locals of main() and of the functions it calls, before a run; stages,
\* exhausted, base and gatePassed record the run's history
IdleRun ==
  [pc |-> "idle", i |-> 0, owner |-> TRUE, token |-> TRUE, today |-> "",
   dailyIssue |-> NoIssue, reminderData |-> "none", comment |-> 0,
   draftsContent |-> <<>>, draftLines |-> <<>>, confirmationComment |-> 0,
   k |-> 0, stats |-> ZeroStats, newIssue |-> 0, error |-> "none",
   exitCode |-> 0, subIssuesProcessed |-> "none", stages |-> <<>>,
   exhausted |-> {}, base |-> [issues |-> 0, comments |-> 0],
   gatePassed |-> FALSE]

NewDailyIssue(number, today) ==
  [title |-> ExpectedTitle(today), body |-> DailyIssueBody(today),
   labels |-> {DAILY_ISSUE_LABEL}, state |-> "open", html_url |-> HtmlUrl(number)]

\* an issue somebody opened by hand
UnrelatedIssue ==
  [title |-> TitleRefactor, body |-> <<"t", "o", "d", "o">>, labels |-> {},
   state |-> "open", html_url |-> HtmlUrl(1)]

\* the tracker before the first run of a behaviour: empty, or holding an
\* unrelated open issue and the daily issue as an earlier run of the same
\* date created it
InitialIssues == { <<>>, <<UnrelatedIssue, NewDailyIssue(2, Dates[1])>> }

\* no function is called on its own
NoCall ==
  [pc |-> "none", retries |-> 0, delay |-> 0, i |-> 0, attempts |-> <<>>,
   slept |-> <<>>, lastError |-> "undefined", result |-> "none", thrown |-> "none"]

Init ==
  /\ call = NoCall
  /\ issues \in InitialIssues
  /\ comments = <<>>
  /\ clock = 1
  /\ runs = [r \in Runs |-> IdleRun]
  /\ started = 0
  /\ humanSteps = 0

Active(r) == runs[r].pc # "idle"

SetRun(r, rec) == runs' = [runs EXCEPT ![r] = rec]

\* mutant: the sleep follows every failed attempt, the last one too
ShouldRetry_EveryFailure(i, retries) == TRUE

\* retry(): after a failed attempt i (0-based), sleep and try again
ShouldRetry(i, retries) == i < retries - 1

Again(rec) == [rec EXCEPT !.i = @ + 1]

Exhaust(rec, site) == [rec EXCEPT !.i = 0, !.exhausted = @ \cup {<<site, rec.k>>}]

\* the catch block of main(): report, and exit 1 when CI is set
Fatal(rec, message) ==
  {[rec EXCEPT !.pc = "fatal", !.i = 0, !.error = message,
               !.exitCode = IF ci THEN 1 ELSE 0] : ci \in BOOLEAN}

\* mutant: the exhausted call is logged and main() goes on to the collector
FailOrFatal_GoesOn(r, rec, site) ==
  IF ShouldRetry(rec.i, RETRIES)
  THEN SetRun(r, Again(rec))
  ELSE SetRun(r, [Exhaust(rec, site) EXCEPT !.pc = "collect_issues",
                                            !.stages = <<"locate", "collect">>])

\* one failed attempt of a call whose exhaustion reaches the catch of main()
FailOrFatal(r, rec, site) ==
  IF ShouldRetry(rec.i, RETRIES)
  THEN SetRun(r, Again(rec))
  ELSE \E f \in Fatal(Exhaust(rec, site), site) : SetRun(r, f)

\* issues.listForRepo with state "open": numbers, newest first
OpenIssues == {n \in 1..Len(issues) : issues[n].state = "open"}

\* mutant: the title looked for lacks the space before the date
ExistingDailyIssue_NoSeparator(today) ==
  LET found == {n \in OpenIssues : /\ DAILY_ISSUE_LABEL \in issues[n].labels
                                   /\ issues[n].title = <<DAILY_ISSUE_TITLE_PREFIX, today>>}
  IN  IF found = {} THEN 0 ELSE Max(found)

\* issues.find(issue => issue.title === expectedTitle) on the open issues with
\* the daily label, which the tracker lists newest first; 0 when none
ExistingDailyIssue(today) ==
  LET found == {n \in OpenIssues : /\ DAILY_ISSUE_LABEL \in issues[n].labels
                                   /\ issues[n].title = ExpectedTitle(today)}
  IN  IF found = {} THEN 0 ELSE Max(found)

\* mutant: the first issue of the repository is returned, not the one found
Identity_OfOldestOpen(number) ==
  [number |-> Min(OpenIssues), html_url |-> issues[Min(OpenIssues)].html_url]

\* { number: issue.number, html_url: issue.html_url }
Identity(number) == [number |-> number, html_url |-> issues[number].html_url]

\* ------------------------------------------------------------------- main

\* mutant: the locator does not ask for the token before its first call
Start_TokenUnchecked(r) ==
  /\ ~Active(r)
  /\ started + humanSteps < MaxSteps
  /\ started' = started + 1
  /\ \E owner \in BOOLEAN, token \in BOOLEAN :
       LET rec == [IdleRun EXCEPT !.owner = owner, !.token = token,
                                  !.stages = <<"locate">>,
                                  !.base = [issues |-> Len(issues),
                                            comments |-> Len(comments)]]
       IN  IF ~owner
           THEN \E f \in Fatal(rec, "repository owner or name is not defined") : SetRun(r, f)
           ELSE SetRun(r, [rec EXCEPT !.pc = "foc_list", !.today = Dates[clock]])
  /\ UNCHANGED <<issues, comments, clock, humanSteps>>

\* main() starts and findOrCreateDailyIssue checks its configuration
Start(r) ==
  /\ ~Active(r)
  /\ started + humanSteps < MaxSteps
  /\ started' = started + 1
  /\ \E owner \in BOOLEAN, token \in BOOLEAN :
       LET rec == [IdleRun EXCEPT !.owner = owner, !.token = token,
                                  !.stages = <<"locate">>,
                                  !.base = [issues |-> Len(issues),
                                            comments |-> Len(comments)]]
       IN  IF ~owner
           THEN \E f \in Fatal(rec, "repository owner or name is not defined") : SetRun(r, f)
           ELSE IF ~token
           THEN \E f \in Fatal(rec, "GITHUB_TOKEN is not set") : SetRun(r, f)
           ELSE SetRun(r, [rec EXCEPT !.pc = "foc_list", !.today = Dates[clock]])
  /\ UNCHANGED <<issues, comments, clock, humanSteps>>

\* findOrCreateDailyIssue: one attempt of listing the open labelled issues
FocList(r) ==
  LET rec == runs[r] IN
  /\ rec.pc = "foc_list"
  /\ \E ok \in BOOLEAN :
       IF ok
       THEN LET existingIssue == ExistingDailyIssue(rec.today)
            IN  IF existingIssue # 0
                THEN SetRun(r, [rec EXCEPT !.pc = "collect_issues", !.i = 0,
                                           !.dailyIssue = Identity(existingIssue),
                                           !.stages = Append(@, "collect")])
                ELSE SetRun(r, [rec EXCEPT !.pc = "foc_create", !.i = 0])
       ELSE FailOrFatal(r, rec, "listIssuesForRepo")
  /\ UNCHANGED <<issues, comments, clock, started, humanSteps>>

\* mutant: the create call is preceded by a second look at the open issues
FocCreate_ListsAgain(r) ==
  LET rec == runs[r] IN
  /\ rec.pc = "foc_create"
  /\ \E ok \in BOOLEAN :
       IF ok
       THEN IF ExistingDailyIssue(rec.today) # 0
            THEN /\ UNCHANGED issues
                 /\ SetRun(r, [rec EXCEPT !.pc = "collect_issues", !.i = 0,
                                          !.dailyIssue = Identity(ExistingDailyIssue(rec.today)),
                                          !.stages = Append(@, "collect")])
            ELSE /\ issues' = Append(issues, NewDailyIssue(Len(issues) + 1, rec.today))
                 /\ SetRun(r, [rec EXCEPT !.pc = "collect_issues", !.i = 0,
                                          !.dailyIssue =
                                            [number |-> Len(issues) + 1,
                                             html_url |-> HtmlUrl(Len(issues) + 1)],
                                          !.stages = Append(@, "collect")])
       ELSE /\ FailOrFatal(r, rec, "createIssue")
            /\ UNCHANGED issues
  /\ UNCHANGED <<comments, clock, started, humanSteps>>

\* findOrCreateDailyIssue: one attempt of creating the daily issue
FocCreate(r) ==
  LET rec == runs[r] IN
  /\ rec.pc = "foc_create"
  /\ \E ok \in BOOLEAN :
       IF ok
       THEN /\ issues' = Append(issues, NewDailyIssue(Len(issues) + 1, rec.today))
            /\ SetRun(r, [rec EXCEPT !.pc = "collect_issues", !.i = 0,
                                     !.dailyIssue =
                                       [number |-> Len(issues) + 1,
                                        html_url |-> HtmlUrl(Len(issues) + 1)],
                                     !.stages = Append(@, "collect")])
       ELSE /\ FailOrFatal(r, rec, "createIssue")
            /\ UNCHANGED issues
  /\ UNCHANGED <<comments, clock, started, humanSteps>>

\* collectRepoData: one attempt of listing the open issues
CollectIssues(r) ==
  LET rec == runs[r] IN
  /\ rec.pc = "collect_issues"
  /\ \E ok \in BOOLEAN :
       IF ok
       THEN SetRun(r, [rec EXCEPT !.pc = "collect_pulls", !.i = 0])
       ELSE FailOrFatal(r, rec, "collectIssues")
  /\ UNCHANGED <<issues, comments, clock, started, humanSteps>>

\* collectRepoData: one attempt of listing the open pull requests; then
\* generateReminder initializes its client
CollectPulls(r) ==
  LET rec == runs[r] IN
  /\ rec.pc = "collect_pulls"
  /\ \E ok \in BOOLEAN :
       IF ok
       THEN \E apiKey \in BOOLEAN :
              LET next == [rec EXCEPT !.i = 0, !.stages = Append(@, "generate")]
              IN  IF ~apiKey
                  THEN \E f \in Fatal(next, "OPENAI_API_KEY is not set") : SetRun(r, f)
                  ELSE SetRun(r, [next EXCEPT !.pc = "generate"])
       ELSE FailOrFatal(r, rec, "listPulls")
  /\ UNCHANGED <<issues, comments, clock, started, humanSteps>>

\* what the generator can answer when the call succeeds
GeneratorAnswers == {"valid", "empty_field", "no_content", "bad_json", "missing_keys"}

\* generateReminder's result for an answer: the parsed object, or null
ReminderData(answer) ==
  IF answer \in {"valid", "empty_field"} THEN answer ELSE "null"

\* mutant: without a reminder only the posting is skipped
GenerationFailed_SkipsPostOnly(rec) ==
  [rec EXCEPT !.pc = "pd_get", !.i = 0, !.reminderData = "null",
              !.stages = Stages,
              !.base = [issues |-> Len(issues), comments |-> Len(comments)]]

\* main() after generateReminder returned null: report and return
GenerationFailed(rec) ==
  [rec EXCEPT !.pc = "done", !.i = 0, !.reminderData = "null",
              !.subIssuesProcessed = "0"]

\* main() with a reminder: postCommentToDailyIssue validates its arguments
AfterGeneration(rec, reminderData) ==
  LET next == [rec EXCEPT !.i = 0, !.reminderData = reminderData,
                          !.stages = Append(@, "post")]
  IN  IF reminderData = "null" THEN {GenerationFailed(rec)}
      ELSE IF ~rec.owner \/ rec.dailyIssue.number = 0 \/ reminderData = "empty_field"
      THEN Fatal(next, "invalid arguments of postCommentToDailyIssue")
      ELSE {[next EXCEPT !.pc = "post_comment"]}

\* generateReminder: one attempt of the completion call
Generate(r) ==
  LET rec == runs[r] IN
  /\ rec.pc = "generate"
  /\ \E ok \in BOOLEAN :
       IF ok
       THEN \E answer \in GeneratorAnswers :
              \E next \in AfterGeneration(rec, ReminderData(answer)) : SetRun(r, next)
       ELSE IF ShouldRetry(rec.i, RETRIES)
       THEN SetRun(r, Again(rec))
       ELSE \E next \in AfterGeneration(Exhaust(rec, "openaiChatCompletion"), "null") :
              SetRun(r, next)
  /\ UNCHANGED <<issues, comments, clock, started, humanSteps>>

\* mutant: without a posted comment main() returns
EnterProcessDrafts_NeedsComment(rec, comment) ==
  IF comment = 0
  THEN {[rec EXCEPT !.pc = "done", !.i = 0, !.comment = 0, !.subIssuesProcessed = "0"]}
  ELSE {[rec EXCEPT !.pc = "pd_get", !.i = 0, !.comment = comment,
                    !.stats = ZeroStats, !.stages = Append(@, "drafts"),
                    !.base = [issues |-> Len(issues), comments |-> Len(comments) + 1]]}

\* main() calls processDrafts, which checks its arguments
EnterProcessDrafts(rec, comment) ==
  LET next == [rec EXCEPT !.i = 0, !.comment = comment,
                          !.stages = Append(@, "drafts"),
                          !.base = [issues |-> Len(issues), comments |-> Len(comments) +
                                    (IF comment # 0 THEN 1 ELSE 0)]]
  IN  IF ~rec.owner \/ rec.dailyIssue.number = 0 \/ ~rec.token
      THEN Fatal(next, "invalid arguments of processDrafts")
      ELSE {[next EXCEPT !.pc = "pd_get", !.stats = ZeroStats]}

\* mutant: the summary is written into the body of the daily issue
PostComment_IntoBody(r) ==
  LET rec == runs[r] IN
  /\ rec.pc = "post_comment"
  /\ \E ok \in BOOLEAN :
       IF ok
       THEN /\ issues' = [issues EXCEPT ![rec.dailyIssue.number].body =
                             @ \o SummaryCommentBody]
            /\ \E next \in EnterProcessDrafts(rec, 0) : SetRun(r, next)
       ELSE /\ UNCHANGED issues
            /\ IF ShouldRetry(rec.i, RETRIES)
               THEN SetRun(r, Again(rec))
               ELSE \E next \in EnterProcessDrafts(Exhaust(rec, "createComment"), 0) :
                      SetRun(r, next)
  /\ UNCHANGED <<comments, clock, started, humanSteps>>

\* postCommentToDailyIssue: one attempt of posting the summary comment
PostComment(r) ==
  LET rec == runs[r] IN
  /\ rec.pc = "post_comment"
  /\ \E ok \in BOOLEAN :
       IF ok
       THEN /\ comments' = Append(comments,
                 [issue |-> rec.dailyIssue.number, body |-> SummaryCommentBody,
                  userType |-> "Bot", reactions |-> {}])
            /\ \E next \in EnterProcessDrafts(rec, Len(comments) + 1) : SetRun(r, next)
       ELSE /\ UNCHANGED comments
            /\ IF ShouldRetry(rec.i, RETRIES)
               THEN SetRun(r, Again(rec))
               ELSE \E next \in EnterProcessDrafts(Exhaust(rec, "createComment"), 0) :
                      SetRun(r, next)
  /\ UNCHANGED <<issues, clock, started, humanSteps>>

\* ---------------------------------------------------------- processDrafts

\* processDrafts returns stats and main() reports them
ReturnStats(rec) ==
  [rec EXCEPT !.pc = "done", !.i = 0, !.subIssuesProcessed = rec.stats]

\* mutant: the catch logs and throws again, as the collector's does
OuterCatch_Rethrow(rec, site) ==
  [Exhaust(rec, site) EXCEPT !.pc = "fatal", !.error = site, !.exitCode = 1]

\* the catch around the whole of processDrafts: log and return the stats
OuterCatch(rec, site) == ReturnStats(Exhaust(rec, site))

\* processDrafts: one attempt of fetching the issue; then the drafts region
PdGetIssue(r) ==
  LET rec == runs[r] IN
  /\ rec.pc = "pd_get"
  /\ \E ok \in BOOLEAN :
       IF ok
       THEN LET issueBody == issues[rec.dailyIssue.number].body
                draftsContent == DraftsContent(issueBody)
            IN  IF ~HasDraftSection(issueBody) \/ NoDraftContent(draftsContent)
                THEN SetRun(r, ReturnStats(rec))
                ELSE SetRun(r, [rec EXCEPT !.pc = "pd_list_comments", !.i = 0,
                                           !.draftsContent = draftsContent])
       ELSE IF ShouldRetry(rec.i, RETRIES)
       THEN SetRun(r, Again(rec))
       ELSE SetRun(r, OuterCatch(rec, "getIssue"))
  /\ UNCHANGED <<issues, comments, clock, started, humanSteps>>

\* comments.find(...): the oldest confirmation comment of the issue, 0 when none
FindConfirmation(issueNumber) ==
  LET found == {c \in 1..Len(comments) : /\ comments[c].issue = issueNumber
                                         /\ IsConfirmation(comments[c])}
  IN  IF found = {} THEN 0 ELSE Min(found)

\* mutant: a confirmation comment counts only when it lists the current drafts
PdListComments_ListMustMatch(r) ==
  LET rec == runs[r] IN
  /\ rec.pc = "pd_list_comments"
  /\ \E ok \in BOOLEAN :
       IF ok
       THEN LET draftLines == DraftLines(rec.draftsContent)
                counted == [rec EXCEPT !.i = 0, !.draftLines = draftLines,
                                       !.stats.processed = Len(draftLines)]
                found == FindConfirmation(rec.dailyIssue.number)
                confirmationComment ==
                  IF found # 0 /\ comments[found].body = ConfirmationBody(draftLines)
                  THEN found ELSE 0
            IN  IF Len(draftLines) = 0
                THEN SetRun(r, ReturnStats(counted))
                ELSE IF confirmationComment = 0
                THEN SetRun(r, [counted EXCEPT !.pc = "pd_confirm"])
                ELSE SetRun(r, [counted EXCEPT !.pc = "pd_reactions",
                                               !.confirmationComment = confirmationComment])
       ELSE IF ShouldRetry(rec.i, RETRIES)
       THEN SetRun(r, Again(rec))
       ELSE SetRun(r, OuterCatch(rec, "listComments"))
  /\ UNCHANGED <<issues, comments, clock, started, humanSteps>>

\* processDrafts: one attempt of listing the comments; then the draft lines
\* and the search for the confirmation comment
PdListComments(r) ==
  LET rec == runs[r] IN
  /\ rec.pc = "pd_list_comments"
  /\ \E ok \in BOOLEAN :
       IF ok
       THEN LET draftLines == DraftLines(rec.draftsContent)
                counted == [rec EXCEPT !.i = 0, !.draftLines = draftLines,
                                       !.stats.processed = Len(draftLines)]
                confirmationComment == FindConfirmation(rec.dailyIssue.number)
            IN  IF Len(draftLines) = 0
                THEN SetRun(r, ReturnStats(counted))
                ELSE IF confirmationComment = 0
                THEN SetRun(r, [counted EXCEPT !.pc = "pd_confirm"])
                ELSE SetRun(r, [counted EXCEPT !.pc = "pd_reactions",
                                               !.confirmationComment = confirmationComment])
       ELSE IF ShouldRetry(rec.i, RETRIES)
       THEN SetRun(r, Again(rec))
       ELSE SetRun(r, OuterCatch(rec, "listComments"))
  /\ UNCHANGED <<issues, comments, clock, started, humanSteps>>

\* processDrafts: one attempt of posting the confirmation request
PdConfirm(r) ==
  LET rec == runs[r] IN
  /\ rec.pc = "pd_confirm"
  /\ \E ok \in BOOLEAN :
       IF ok
       THEN /\ comments' = Append(comments,
                 [issue |-> rec.dailyIssue.number, body |-> ConfirmationBody(rec.draftLines),
                  userType |-> "Bot", reactions |-> {}])
            /\ SetRun(r, ReturnStats(rec))
       ELSE /\ UNCHANGED comments
            /\ IF ShouldRetry(rec.i, RETRIES)
               THEN SetRun(r, Again(rec))
               ELSE SetRun(r, OuterCatch(rec, "createConfirmationComment"))
  /\ UNCHANGED <<issues, clock, started, humanSteps>>

\* the for loop over draftLines from index k on: the next draft with a
\* non-empty title is checked, and after the last one the stats are returned
RECURSIVE NextDraft(_, _)
NextDraft(rec, k) ==
  IF k > Len(rec.draftLines) THEN ReturnStats([rec EXCEPT !.k = k])
  ELSE IF DraftTitle(rec.draftLines[k]) = <<>> THEN NextDraft(rec, k + 1)
  ELSE [rec EXCEPT !.pc = "pd_check", !.i = 0, !.k = k]

\* mutant: a failed creation ends the loop
InnerCatch_Abort(rec, site) == ReturnStats(Exhaust(rec, site))

\* mutant: after a failed creation the same draft is taken up again
InnerCatch_SameItem(rec, site) ==
  [Exhaust(rec, site) EXCEPT !.pc = "pd_check"]

\* the catch around the creation of one sub-issue: log and go on
InnerCatch(rec, site) == NextDraft(Exhaust(rec, site), rec.k + 1)

\* mutant: any reaction counts as approval
HasThumbsUp_AnyReaction(reactions) == reactions # {}

\* reactions.some(reaction => reaction.content === "+1")
HasThumbsUp(reactions) == THUMBS_UP \in reactions

\* processDrafts: one attempt of listing the reactions of the confirmation
PdListReactions(r) ==
  LET rec == runs[r] IN
  /\ rec.pc = "pd_reactions"
  /\ \E ok \in BOOLEAN :
       IF ok
       THEN IF ~HasThumbsUp(comments[rec.confirmationComment].reactions)
            THEN SetRun(r, ReturnStats(rec))
            ELSE SetRun(r, NextDraft([rec EXCEPT !.gatePassed = TRUE], 1))
       ELSE IF ShouldRetry(rec.i, RETRIES)
       THEN SetRun(r, Again(rec))
       ELSE SetRun(r, OuterCatch(rec, "listReactions"))
  /\ UNCHANGED <<issues, comments, clock, started, humanSteps>>

\* mutant: only the newest open issue is compared
IssueExists_NewestOnly(draftTitle) ==
  OpenIssues # {} /\ SimilarTitle(issues[Max(OpenIssues)].title, draftTitle)

\* mutant: issues created as sub-issues are not compared
IssueExists_SubIssuesIgnored(draftTitle) ==
  \E n \in OpenIssues :
     SUB_ISSUE_LABEL \notin issues[n].labels /\ SimilarTitle(issues[n].title, draftTitle)

\* existingIssues.some(...) over the open issues
IssueExists(draftTitle) ==
  \E n \in OpenIssues : SimilarTitle(issues[n].title, draftTitle)

\* mutant: the open issues are those fetched before the loop
PdCheckExisting_FetchedOnce(r) ==
  LET rec == runs[r] IN
  /\ rec.pc = "pd_check"
  /\ \E ok \in BOOLEAN :
       IF ok
       THEN IF \E n \in OpenIssues \cap 1..rec.base.issues :
                  SimilarTitle(issues[n].title, DraftTitle(rec.draftLines[rec.k]))
            THEN SetRun(r, NextDraft([rec EXCEPT !.stats.existed = @ + 1], rec.k + 1))
            ELSE SetRun(r, [rec EXCEPT !.pc = "pd_create", !.i = 0])
       ELSE IF ShouldRetry(rec.i, RETRIES)
       THEN SetRun(r, Again(rec))
       ELSE SetRun(r, OuterCatch(rec, "checkExistingIssues"))
  /\ UNCHANGED <<issues, comments, clock, started, humanSteps>>

\* processDrafts: one attempt of re-fetching the open issues for draft k
PdCheckExisting(r) ==
  LET rec == runs[r] IN
  /\ rec.pc = "pd_check"
  /\ \E ok \in BOOLEAN :
       IF ok
       THEN IF IssueExists(DraftTitle(rec.draftLines[rec.k]))
            THEN SetRun(r, NextDraft([rec EXCEPT !.stats.existed = @ + 1], rec.k + 1))
            ELSE SetRun(r, [rec EXCEPT !.pc = "pd_create", !.i = 0])
       ELSE IF ShouldRetry(rec.i, RETRIES)
       THEN SetRun(r, Again(rec))
       ELSE SetRun(r, OuterCatch(rec, "checkExistingIssues"))
  /\ UNCHANGED <<issues, comments, clock, started, humanSteps>>

\* mutant: the sub-issue gets the label of the daily issues
NewSubIssue_DailyLabel(number, today, issueNumber, htmlUrl, draftTitle) ==
  [title |-> draftTitle,
   body |-> SubIssueBody(today, issueNumber, htmlUrl, draftTitle),
   labels |-> {DAILY_ISSUE_LABEL}, state |-> "open", html_url |-> HtmlUrl(number)]

NewSubIssue(number, today, issueNumber, htmlUrl, draftTitle) ==
  [title |-> draftTitle,
   body |-> SubIssueBody(today, issueNumber, htmlUrl, draftTitle),
   labels |-> {SUB_ISSUE_LABEL}, state |-> "open", html_url |-> HtmlUrl(number)]

\* mutant: the create call is preceded by a second look at the open issues
PdCreateSubIssue_ChecksAgain(r) ==
  LET rec == runs[r] IN
  /\ rec.pc = "pd_create"
  /\ \E ok \in BOOLEAN :
       IF ok
       THEN IF IssueExists(DraftTitle(rec.draftLines[rec.k]))
            THEN /\ UNCHANGED issues
                 /\ SetRun(r, NextDraft([rec EXCEPT !.stats.existed = @ + 1], rec.k + 1))
            ELSE /\ issues' = Append(issues, NewSubIssue(Len(issues) + 1, Dates[clock],
                                        rec.dailyIssue.number,
                                        issues[rec.dailyIssue.number].html_url,
                                        DraftTitle(rec.draftLines[rec.k])))
                 /\ SetRun(r, [rec EXCEPT !.pc = "pd_reference", !.i = 0,
                                          !.newIssue = Len(issues) + 1,
                                          !.stats.created = @ + 1])
       ELSE /\ UNCHANGED issues
            /\ IF ShouldRetry(rec.i, RETRIES)
               THEN SetRun(r, Again(rec))
               ELSE SetRun(r, InnerCatch(rec, "createSubIssue"))
  /\ UNCHANGED <<comments, clock, started, humanSteps>>

\* processDrafts: one attempt of creating the sub-issue of draft k
PdCreateSubIssue(r) ==
  LET rec == runs[r] IN
  /\ rec.pc = "pd_create"
  /\ \E ok \in BOOLEAN :
       IF ok
       THEN /\ issues' = Append(issues, NewSubIssue(Len(issues) + 1, Dates[clock],
                                   rec.dailyIssue.number,
                                   issues[rec.dailyIssue.number].html_url,
                                   DraftTitle(rec.draftLines[rec.k])))
            /\ SetRun(r, [rec EXCEPT !.pc = "pd_reference", !.i = 0,
                                     !.newIssue = Len(issues) + 1,
                                     !.stats.created = @ + 1])
       ELSE /\ UNCHANGED issues
            /\ IF ShouldRetry(rec.i, RETRIES)
               THEN SetRun(r, Again(rec))
               ELSE SetRun(r, InnerCatch(rec, "createSubIssue"))
  /\ UNCHANGED <<comments, clock, started, humanSteps>>

\* mutant: the sub-issue is counted once more when it is announced
PdReferenceComment_CountsAgain(r) ==
  LET rec == runs[r] IN
  /\ rec.pc = "pd_reference"
  /\ \E ok \in BOOLEAN :
       IF ok
       THEN /\ comments' = Append(comments,
                 [issue |-> rec.dailyIssue.number,
                  body |-> ReferenceCommentBody(DraftTitle(rec.draftLines[rec.k]),
                                                rec.newIssue),
                  userType |-> "Bot", reactions |-> {}])
            /\ SetRun(r, NextDraft([rec EXCEPT !.stats.created = @ + 1], rec.k + 1))
       ELSE /\ UNCHANGED comments
            /\ IF ShouldRetry(rec.i, RETRIES)
               THEN SetRun(r, Again(rec))
               ELSE SetRun(r, InnerCatch(rec, "createReferenceComment"))
  /\ UNCHANGED <<issues, clock, started, humanSteps>>

\* processDrafts: one attempt of announcing the sub-issue on the parent issue
PdReferenceComment(r) ==
  LET rec == runs[r] IN
  /\ rec.pc = "pd_reference"
  /\ \E ok \in BOOLEAN :
       IF ok
       THEN /\ comments' = Append(comments,
                 [issue |-> rec.dailyIssue.number,
                  body |-> ReferenceCommentBody(DraftTitle(rec.draftLines[rec.k]),
                                                rec.newIssue),
                  userType |-> "Bot", reactions |-> {}])
            /\ SetRun(r, NextDraft(rec, rec.k + 1))
       ELSE /\ UNCHANGED comments
            /\ IF ShouldRetry(rec.i, RETRIES)
               THEN SetRun(r, Again(rec))
               ELSE SetRun(r, InnerCatch(rec, "createReferenceComment"))
  /\ UNCHANGED <<issues, clock, started, humanSteps>>

\* the process of a finished run exits
Exit(r) ==
  /\ runs[r].pc \in {"done", "fatal"}
  /\ SetRun(r, IdleRun)
  /\ UNCHANGED <<issues, comments, clock, started, humanSteps>>

RunStep(r) ==
  \/ Start(r) /\ UNCHANGED call
  \/ Exit(r) /\ UNCHANGED call
  \/ FocList(r) /\ UNCHANGED call
  \/ FocCreate(r) /\ UNCHANGED call
  \/ CollectIssues(r) /\ UNCHANGED call
  \/ CollectPulls(r) /\ UNCHANGED call
  \/ Generate(r) /\ UNCHANGED call
  \/ PostComment(r) /\ UNCHANGED call
  \/ PdGetIssue(r) /\ UNCHANGED call
  \/ PdListComments(r) /\ UNCHANGED call
  \/ PdConfirm(r) /\ UNCHANGED call
  \/ PdListReactions(r) /\ UNCHANGED call
  \/ PdCheckExisting(r) /\ UNCHANGED call
  \/ PdCreateSubIssue(r) /\ UNCHANGED call
  \/ PdReferenceComment(r) /\ UNCHANGED call

\* ------------------------------------------------------------ environment

Line(prefix, text) == prefix \o <<" ">> \o text \o <<"\n">>

Notes == <<"#", " ", "notes", "\n", "\n">>

\* bodies a human gives the daily issue
BodyThree ==
  Notes \o DRAFT_SECTION_HEADER \o <<"\n", "\n">> \o Line(<<"-">>, TitleDoA) \o
  Line(<<"*">>, TitleDoB) \o Line(<<"1", ".">>, TitleDoC) \o
  <<"#", "#", " ", "N", "e", "x", "t", "\n">> \o Line(<<"-">>, TitleDatabaseModule)
BodyRefactor ==
  Notes \o DRAFT_SECTION_HEADER \o <<"\n">> \o Line(<<"-">>, TitleRefactorLower) \o
  Line(<<"-">>, TitleRefactorFurther) \o Line(<<"-">>, TitleDatabaseModule)
BodyDuplicate ==
  Notes \o DRAFT_SECTION_HEADER \o <<"\n">> \o Line(<<"-">>, TitleDoA) \o
  Line(<<"-">>, ToLowerCase(TitleDoA))
BodyNoListItem ==
  Notes \o DRAFT_SECTION_HEADER \o <<"\n", "t", "o", "d", "o", "\n", "-", "x", "\n">>
BodyNoHeader == Notes

\* the header with nothing under it, and the text of the template put back
BodyEmptyRegion == Notes \o DRAFT_SECTION_HEADER \o <<"\n", "\n">>
BodyPlaceholder == DailyIssueBody(Dates[1])
HumanBodies ==
  {BodyThree, BodyRefactor, BodyDuplicate, BodyNoListItem, BodyNoHeader,
   BodyEmptyRegion, BodyPlaceholder}

DailyIssues == {n \in OpenIssues : DAILY_ISSUE_LABEL \in issues[n].labels}

HumanEditBody ==
  /\ started + humanSteps < MaxSteps
  /\ \E n \in DailyIssues, b \in HumanBodies :
       /\ issues[n].body # b
       /\ issues' = [issues EXCEPT ![n].body = b]
  /\ humanSteps' = humanSteps + 1
  /\ UNCHANGED <<comments, clock, runs, started>>

ReactionContents == {THUMBS_UP, "heart"}

\* a reaction on a comment that carries the marker phrase
HumanReact ==
  /\ started + humanSteps < MaxSteps
  /\ \E c \in 1..Len(comments), content \in ReactionContents :
       /\ Includes(comments[c].body, CONFIRMATION_MARKER)
       /\ content \notin comments[c].reactions
       /\ comments' = [comments EXCEPT ![c].reactions = @ \cup {content}]
  /\ humanSteps' = humanSteps + 1
  /\ UNCHANGED <<issues, clock, runs, started>>

\* a person writes the marker phrase in a comment of their own
HumanComment ==
  /\ started + humanSteps < MaxSteps
  /\ \E n \in DailyIssues :
       comments' = Append(comments,
         [issue |-> n, body |-> <<"#", "#", "#", " ">> \o CONFIRMATION_MARKER,
          userType |-> "User", reactions |-> {}])
  /\ humanSteps' = humanSteps + 1
  /\ UNCHANGED <<issues, clock, runs, started>>

HumanClose ==
  /\ started + humanSteps < MaxSteps
  /\ \E n \in OpenIssues : issues' = [issues EXCEPT ![n].state = "closed"]
  /\ humanSteps' = humanSteps + 1
  /\ UNCHANGED <<comments, clock, runs, started>>

\* the UTC date changes
Tick ==
  /\ started + humanSteps < MaxSteps
  /\ clock < Len(Dates)
  /\ clock' = clock + 1
  /\ humanSteps' = humanSteps + 1
  /\ UNCHANGED <<issues, comments, runs, started>>

Human == HumanEditBody \/ HumanReact \/ HumanComment \/ HumanClose \/ Tick

Quiescent == \A r \in Runs : ~Active(r)

\* runs do not overlap, and people act between runs
Next ==
  \/ Quiescent /\ HumanEditBody /\ UNCHANGED call
  \/ Quiescent /\ HumanReact /\ UNCHANGED call
  \/ Quiescent /\ HumanComment /\ UNCHANGED call
  \/ Quiescent /\ HumanClose /\ UNCHANGED call
  \/ Quiescent /\ Tick /\ UNCHANGED call
  \/ RunStep(1)

Spec == Init /\ [][Next]_vars

\* a step of a run that has started: its pending call returns or fails
Proceed(r) == Active(r) /\ RunStep(r)

\* every call of a started run eventually returns or fails
SpecLive == Init /\ [][Next]_vars /\ \A r \in Runs : WF_vars(Proceed(r))

\* ------------------------------------ a confirmation request is pending

\* the tracker a first run leaves when the daily issue lists the same draft
\* twice: the summary comment and the confirmation request, no reaction yet
BodyTwice ==
  Notes \o DRAFT_SECTION_HEADER \o <<"\n">> \o Line(<<"-">>, TitleDoA) \o
  Line(<<"-">>, TitleDoA)

PendingBodies == {BodyTwice}

PendingIssues(b) ==
  <<UnrelatedIssue, [NewDailyIssue(2, Dates[1]) EXCEPT !.body = b]>>

PendingComments(b) ==
  <<[issue |-> 2, body |-> SummaryCommentBody, userType |-> "Bot", reactions |-> {}],
    [issue |-> 2, body |-> ConfirmationBody(DraftLines(DraftsContent(b))),
     userType |-> "Bot", reactions |-> {}]>>

InitPending ==
  /\ call = NoCall
  /\ \E b \in PendingBodies :
       /\ issues = PendingIssues(b)
       /\ comments = PendingComments(b)
  /\ clock = 1
  /\ runs = [r \in Runs |-> IdleRun]
  /\ started = 0
  /\ humanSteps = 0

SpecPending == InitPending /\ [][Next]_vars

\* ------------------------------------- the draft extraction on its own

\* the lines a body is written from: the text, the title when the line is a
\* list item, whether it is a second-level heading, whether it is the
\* placeholder of the template
LineKinds ==
  <<[text |-> <<"-", " ">> \o TitleDoA, title |-> TitleDoA, heading |-> FALSE, placeholder |-> FALSE],
    [text |-> <<"-", " ">> \o TitleDoB, title |-> TitleDoB, heading |-> FALSE, placeholder |-> FALSE],
    [text |-> <<" ", " ", "1", "2", ".", " ", " ">> \o TitleDoC \o <<" ">>,
     title |-> TitleDoC, heading |-> FALSE, placeholder |-> FALSE],
    [text |-> <<"t", "o", "d", "o">>, title |-> <<>>, heading |-> FALSE, placeholder |-> FALSE],
    [text |-> <<"#", "#", " ", "N", "e", "x", "t">>, title |-> <<>>, heading |-> TRUE, placeholder |-> FALSE],
    [text |-> <<"-">> \o TitleDoA, title |-> <<>>, heading |-> FALSE, placeholder |-> FALSE],
    [text |-> PLACEHOLDER_OPENING \o <<" ", "-", "-", ">">>, title |-> <<>>, heading |-> FALSE, placeholder |-> TRUE],
    [text |-> <<"*", " ">>, title |-> <<>>, heading |-> FALSE, placeholder |-> FALSE]>>

\* the sequences of at most n line kinds
RECURSIVE LineSeqs(_)
LineSeqs(n) ==
  IF n = 0 THEN {<<>>}
  ELSE LET shorter == LineSeqs(n - 1)
       IN  shorter \cup {Append(ls, k) : ls \in shorter, k \in 1..Len(LineKinds)}

\* the body with the lines ls under the drafts header
RECURSIVE JoinLines(_)
JoinLines(ls) ==
  IF ls = <<>> THEN <<>>
  ELSE LineKinds[Head(ls)].text \o <<"\n">> \o JoinLines(Tail(ls))

BodyOf(ls) == Notes \o DRAFT_SECTION_HEADER \o <<"\n">> \o JoinLines(ls)

InitExtract ==
  /\ \E ls \in LineSeqs(MaxLines) :
       call = [pc |-> "extract", lines |-> ls, body |-> BodyOf(ls), titles |-> <<>>]
  /\ issues = <<>>
  /\ comments = <<>>
  /\ clock = 1
  /\ runs = [r \in Runs |-> IdleRun]
  /\ started = 0
  /\ humanSteps = 0

\* the draft titles processDrafts takes from a body, in the order of its
\* loop: none without header or content, else the non-empty titles of the
\* draft lines
ExtractedTitles(issueBody) ==
  IF ~HasDraftSection(issueBody) \/ NoDraftContent(DraftsContent(issueBody))
  THEN <<>>
  ELSE LET draftLines == DraftLines(DraftsContent(issueBody))
           titles == [j \in 1..Len(draftLines) |-> DraftTitle(draftLines[j])]
       IN  SelectSeq(titles, LAMBDA t : t # <<>>)

Extract ==
  /\ call.pc = "extract"
  /\ call' = [call EXCEPT !.pc = "extracted", !.titles = ExtractedTitles(call.body)]
  /\ UNCHANGED <<issues, comments, clock, runs, started, humanSteps>>

NextExtract == Extract

SpecExtract == InitExtract /\ [][NextExtract]_vars

\* ------------------------------------------------- retry() on its own

\* the delay argument, in milliseconds
RetryDelays == {0, 1000}

\* what an attempt of the operation can throw
OperationErrors == {"timeout", "server error"}

\* a call retry(fn, retries, delay) at the head of its loop
RetryFrames ==
  {[NoCall EXCEPT !.pc = "loop", !.retries = n, !.delay = d] :
     n \in 0..MaxAttempts, d \in RetryDelays}

InitRetry ==
  /\ call \in RetryFrames
  /\ issues = <<>>
  /\ comments = <<>>
  /\ clock = 1
  /\ runs = [r \in Runs |-> IdleRun]
  /\ started = 0
  /\ humanSteps = 0

\* one pass of the loop body: fn() is invoked; its value is returned, or its
\* error is kept and, unless this was the last attempt, the sleep is next
RetryAttempt ==
  /\ call.pc = "loop"
  /\ call.i < call.retries
  /\ \E outcome \in {"ok"} \cup OperationErrors :
       LET invoked == [call EXCEPT !.attempts = Append(@, outcome)]
       IN  IF outcome = "ok"
           THEN call' = [invoked EXCEPT !.pc = "returned",
                                        !.result = <<"value", call.i + 1>>]
           ELSE LET failed == [invoked EXCEPT !.lastError = <<outcome, call.i + 1>>]
                IN  IF ShouldRetry(call.i, call.retries)
                    THEN call' = [failed EXCEPT !.pc = "sleep"]
                    ELSE call' = [failed EXCEPT !.i = @ + 1]
  /\ UNCHANGED <<issues, comments, clock, runs, started, humanSteps>>

\* await sleep(delay), then i++
RetrySleep ==
  /\ call.pc = "sleep"
  /\ call' = [call EXCEPT !.pc = "loop", !.i = @ + 1, !.slept = Append(@, call.delay)]
  /\ UNCHANGED <<issues, comments, clock, runs, started, humanSteps>>

\* the loop is over: throw lastError
RetryThrow ==
  /\ call.pc = "loop"
  /\ ~(call.i < call.retries)
  /\ call' = [call EXCEPT !.pc = "thrown", !.thrown = call.lastError]
  /\ UNCHANGED <<issues, comments, clock, runs, started, humanSteps>>

NextRetry ==
  \/ RetryAttempt
  \/ RetrySleep
  \/ RetryThrow

SpecRetry == InitRetry /\ [][NextRetry]_vars

\* ------------------------------------------------------ overlapping runs

\* a daily issue with one draft under the header
BodyOne == Notes \o DRAFT_SECTION_HEADER \o <<"\n">> \o Line(<<"-">>, TitleDoA)

\* two runs of the same date have posted their summaries on the daily issue
\* and call processDrafts
OverlapIssues == <<[NewDailyIssue(1, Dates[1]) EXCEPT !.body = BodyOne]>>

OverlapComments ==
  [c \in 1..2 |-> [issue |-> 1, body |-> SummaryCommentBody, userType |-> "Bot",
                   reactions |-> {}]]

InDrafts(r) ==
  [IdleRun EXCEPT !.pc = "pd_get", !.today = Dates[1],
                  !.dailyIssue = [number |-> 1, html_url |-> HtmlUrl(1)],
                  !.reminderData = "valid", !.comment = r, !.stages = Stages,
                  !.base = [issues |-> 1, comments |-> r]]

\* either no run has started and the tracker is empty, or two runs are at the
\* start of processDrafts
InitOverlap ==
  /\ call = NoCall
  /\ clock = 1
  /\ humanSteps = 0
  /\ \/ /\ issues = <<>>
        /\ comments = <<>>
        /\ runs = [r \in Runs |-> IdleRun]
        /\ started = 0
     \/ /\ issues = OverlapIssues
        /\ comments = OverlapComments
        /\ runs = [r \in Runs |-> InDrafts(r)]
        /\ started = 2

\* a person approves a confirmation request
HumanApprove ==
  /\ \E c \in 1..Len(comments) :
       /\ IsConfirmation(comments[c])
       /\ THUMBS_UP \notin comments[c].reactions
       /\ comments' = [comments EXCEPT ![c].reactions = @ \cup {THUMBS_UP}]
  /\ UNCHANGED <<issues, clock, runs, started, humanSteps, call>>

\* runs overlap, and people approve at any time
NextOverlap ==
  \/ RunStep(1)
  \/ RunStep(2)
  \/ HumanApprove

SpecOverlap == InitOverlap /\ [][NextOverlap]_vars

\* ------------------------------------------------------------ properties

\* the call sites of retry() inside processDrafts
PdSites ==
  {"getIssue", "listComments", "createConfirmationComment", "listReactions",
   "checkExistingIssues", "createSubIssue", "createReferenceComment"}

\* the call sites of processDrafts that exhausted their retries in run r
PdExhausted(r) == {e \in runs[r].exhausted : e[1] \in PdSites}

\* run r called processDrafts and the call has returned
PdReturned(r) == runs[r].pc = "done" /\ runs[r].stages = Stages

TrackingIssue(r) == runs[r].dailyIssue.number

\* comment c carries the marker phrase and is written by the automation
BotMarkerComment(c) ==
  /\ comments[c].userType = "Bot"
  /\ \E j \in 1..Len(comments[c].body) : comments[c].body[j] = CONFIRMATION_MARKER[1]

\* the confirmation comments the tracking issue had when processDrafts began
PriorConfirmations(r) ==
  {c \in 1..runs[r].base.comments :
     comments[c].issue = TrackingIssue(r) /\ BotMarkerComment(c)}

\* some confirmation comment of the tracking issue had a "+1" reaction
Approved(r) == \E c \in PriorConfirmations(r) : "+1" \in comments[c].reactions

\* the draft lines of the tracking issue's body (no run changes a body)
DraftLinesAt(r) ==
  LET issueBody == issues[TrackingIssue(r)].body
      draftsContent == DraftsContent(issueBody)
  IN  IF HasDraftSection(issueBody) /\ ~NoDraftContent(draftsContent)
      THEN DraftLines(draftsContent)
      ELSE <<>>

TitlesAt(r) ==
  LET draftLines == DraftLinesAt(r)
  IN  [j \in 1..Len(draftLines) |-> DraftTitle(draftLines[j])]

\* a contains b, letter case ignored
ContainsIgnoringCase(a, b) ==
  \E at \in 0..(Len(a) - Len(b)) :
     \A j \in 1..Len(b) : LowerChar(a[at + j]) = LowerChar(b[j])

\* the issues run r created in processDrafts
CreatedBy(r) == (runs[r].base.issues + 1)..Len(issues)

\* no issue open when processDrafts began resembles a draft of run r, and no
\* draft resembles an earlier draft of the same list
NothingSimilar(r) ==
  /\ \A j \in 1..Len(TitlesAt(r)) : \A n \in 1..runs[r].base.issues :
        issues[n].state = "open" => ~ContainsIgnoringCase(issues[n].title, TitlesAt(r)[j])
  /\ \A j \in 1..Len(TitlesAt(r)) : \A h \in 1..(j - 1) :
        ~ContainsIgnoringCase(TitlesAt(r)[h], TitlesAt(r)[j])

\* C1: a sub-issue is about to be created or has been created only when the
\* tracking issue has a comment with the marker phrase, written by the
\* automation, that carries a "+1" reaction; every sub-issue of the tracker
\* was created under such a comment.
C1_ApprovalGate ==
  /\ \A r \in Runs :
       (runs[r].pc \in {"pd_create", "pd_reference"} \/ runs[r].stats.created > 0)
         => \E c \in 1..Len(comments) :
              /\ comments[c].issue = TrackingIssue(r)
              /\ BotMarkerComment(c)
              /\ "+1" \in comments[c].reactions
  /\ \A n \in 1..Len(issues) :
       SUB_ISSUE_LABEL \in issues[n].labels
         => \E c \in 1..Len(comments) :
              BotMarkerComment(c) /\ "+1" \in comments[c].reactions

\* a run has created a sub-issue
C1_Witness == \E r \in Runs : runs[r].stats.created > 0

\* C2: when no tracker call of processDrafts exhausts its retries and the body
\* has N >= 1 draft lines: without a prior confirmation comment the call
\* returns {N, 0, 0}, posts exactly one comment (by the automation, with the
\* marker, listing item i as "i. <line>" for i = 1..N) and creates no issue;
\* with a confirmation comment that has no "+1" reaction it returns {N, 0, 0},
\* posts nothing and creates no issue.
C2_TwoPhaseGate ==
  \A r \in Runs :
    (PdReturned(r) /\ PdExhausted(r) = {} /\ Len(DraftLinesAt(r)) >= 1) =>
      LET lines == DraftLinesAt(r)
          n == Len(lines)
          waiting == [processed |-> n, created |-> 0, existed |-> 0]
      IN  /\ PriorConfirmations(r) = {} =>
                /\ runs[r].stats = waiting
                /\ Len(issues) = runs[r].base.issues
                /\ Len(comments) = runs[r].base.comments + 1
                /\ comments[Len(comments)].issue = TrackingIssue(r)
                /\ BotMarkerComment(Len(comments))
                /\ \A j \in 1..n :
                     Includes(comments[Len(comments)].body,
                              <<ToString(j), ".", " ">> \o lines[j])
          /\ (PriorConfirmations(r) # {} /\ ~Approved(r)) =>
                /\ runs[r].stats = waiting
                /\ Len(issues) = runs[r].base.issues
                /\ Len(comments) = runs[r].base.comments

\* the second run has found the confirmation of the first one without "+1"
C2_Witness ==
  \E r \in Runs :
    /\ PdReturned(r) /\ PdExhausted(r) = {} /\ started = 2
    /\ Len(DraftLinesAt(r)) >= 1
    /\ PriorConfirmations(r) # {} /\ ~Approved(r)

\* C3: with an approved confirmation comment, N draft items none of which
\* resembles an open issue or an earlier draft, and no call of processDrafts
\* exhausting its retries, the call returns created = N and existed = 0 and
\* has created exactly N issues, one per draft in order, each with the
\* sub-issue label and "#<tracking issue number>" in its body.
C3_ApprovalMaterializes ==
  \A r \in Runs :
    (PdReturned(r) /\ PdExhausted(r) = {} /\ Approved(r)
       /\ Len(DraftLinesAt(r)) >= 1 /\ NothingSimilar(r)) =>
      LET n == Len(DraftLinesAt(r))
      IN  /\ runs[r].stats = [processed |-> n, created |-> n, existed |-> 0]
          /\ Len(issues) = runs[r].base.issues + n
          /\ \A j \in 1..n :
               LET new == issues[runs[r].base.issues + j]
               IN  /\ new.title = TitlesAt(r)[j]
                   /\ new.labels = {SUB_ISSUE_LABEL}
                   /\ new.state = "open"
                   /\ Includes(new.body, <<"#", ToString(TrackingIssue(r))>>)

\* three drafts have been materialized
C3_Witness ==
  \E r \in Runs :
    /\ PdReturned(r) /\ PdExhausted(r) = {} /\ Approved(r) /\ NothingSimilar(r)
    /\ Len(DraftLinesAt(r)) = 3 /\ runs[r].stats.created = 3

\* an issue titled "Refactor database module" was open when processDrafts began
RefactorIssueOpen(r) ==
  \E n \in 1..runs[r].base.issues :
     issues[n].state = "open" /\ issues[n].title = TitleRefactor

\* the titles of the issues run r created in processDrafts
CreatedTitles(r) == {issues[n].title : n \in CreatedBy(r)}

\* the drafts of run r with the title t
DraftsTitled(r, t) == {j \in 1..Len(TitlesAt(r)) : TitlesAt(r)[j] = t}

\* C4 as stated: with "Refactor database module" open, the approved drafts
\* "refactor database module" and "Refactor database module further" are both
\* counted as existed and no issue is created for either.
C4_DedupExample_AsStated ==
  \A r \in Runs :
    (PdReturned(r) /\ PdExhausted(r) = {} /\ Approved(r) /\ RefactorIssueOpen(r)) =>
      /\ CreatedTitles(r) \cap {TitleRefactorLower, TitleRefactorFurther} = {}
      /\ runs[r].stats.existed >=
           Cardinality(DraftsTitled(r, TitleRefactorLower)
                       \cup DraftsTitled(r, TitleRefactorFurther))

\* C4, amended: with "Refactor database module" open, the approved draft
\* "refactor database module" is counted as existed and not created, and so is
\* a draft whose title the open title contains ("Database Module"); the draft
\* "Refactor database module further", which the open title does not contain,
\* is created, once, unless another open issue already has that longer title.
C4_DedupExample ==
  \A r \in Runs :
    (PdReturned(r) /\ PdExhausted(r) = {} /\ Approved(r) /\ RefactorIssueOpen(r)) =>
      LET within == DraftsTitled(r, TitleRefactorLower)
                      \cup DraftsTitled(r, TitleDatabaseModule)
          beyond == DraftsTitled(r, TitleRefactorFurther)
          taken == \E n \in 1..runs[r].base.issues :
                      /\ issues[n].state = "open"
                      /\ ContainsIgnoringCase(issues[n].title, TitleRefactorFurther)
      IN  /\ CreatedTitles(r) \cap {TitleRefactorLower, TitleDatabaseModule} = {}
          /\ runs[r].stats.existed >= Cardinality(within)
          /\ (beyond # {} /\ ~taken) =>
               /\ Cardinality({n \in CreatedBy(r) : issues[n].title = TitleRefactorFurther}) = 1
               /\ runs[r].stats.created >= 1
               /\ runs[r].stats.existed <= Len(TitlesAt(r)) - 1

\* the three drafts about the database module have been handled
C4_Witness ==
  \E r \in Runs :
    /\ PdReturned(r) /\ PdExhausted(r) = {} /\ Approved(r) /\ RefactorIssueOpen(r)
    /\ DraftsTitled(r, TitleRefactorLower) # {}
    /\ DraftsTitled(r, TitleRefactorFurther) # {}
    /\ runs[r].stats = [processed |-> 3, created |-> 1, existed |-> 2]

\* run r completes the re-fetch of the open issues in this step
FetchedOpenIssues(r) ==
  /\ runs[r].pc = "pd_check"
  /\ runs'[r] # runs[r]
  /\ runs'[r].i # runs[r].i + 1
  /\ runs'[r].exhausted = runs[r].exhausted

\* C5: when the re-fetch for a draft succeeds, the draft is counted as existed
\* and skipped, with no creation attempted, exactly when the title of some
\* open issue equals or contains the draft title, letter case ignored;
\* otherwise the creation of its sub-issue is attempted next.
C5_DedupRule ==
  [][\A r \in Runs :
       FetchedOpenIssues(r) =>
         LET rec == runs[r]
             next == runs'[r]
             draftTitle == DraftTitle(rec.draftLines[rec.k])
             similar == \E n \in 1..Len(issues) :
                           /\ issues[n].state = "open"
                           /\ ContainsIgnoringCase(issues[n].title, draftTitle)
         IN  /\ issues' = issues
             /\ similar =>
                  /\ next.stats = [rec.stats EXCEPT !.existed = @ + 1]
                  /\ next.pc \in {"pd_check", "done"}
                  /\ next.k > rec.k
             /\ ~similar =>
                  /\ next.stats = rec.stats
                  /\ next.pc = "pd_create"
                  /\ next.k = rec.k]_vars

\* a creation is being attempted after an earlier draft was skipped
C5_Witness ==
  \E r \in Runs : runs[r].pc = "pd_create" /\ runs[r].stats.existed >= 1

\* C6: with 3 approved drafts, nothing similar open, and the creation of the
\* 2nd item the only call of processDrafts that exhausts its retries, the 1st
\* and 3rd items are created and the call returns {created: 2, existed: 0}.
C6_CreationFailureIsolated ==
  \A r \in Runs :
    (PdReturned(r) /\ Approved(r) /\ Len(DraftLinesAt(r)) = 3 /\ NothingSimilar(r)
       /\ PdExhausted(r) = {<<"createSubIssue", 2>>}) =>
      /\ runs[r].stats = [processed |-> 3, created |-> 2, existed |-> 0]
      /\ Len(issues) = runs[r].base.issues + 2
      /\ issues[runs[r].base.issues + 1].title = TitlesAt(r)[1]
      /\ issues[runs[r].base.issues + 2].title = TitlesAt(r)[3]

\* the creation of the 2nd of 3 items has failed three times
C6_Witness ==
  \E r \in Runs :
    /\ PdReturned(r) /\ Approved(r) /\ Len(DraftLinesAt(r)) = 3 /\ NothingSimilar(r)
    /\ PdExhausted(r) = {<<"createSubIssue", 2>>}

\* C7 as stated: once the approval gate is passed, whatever call fails while
\* one draft item is handled, every draft item of the batch is handled before
\* processDrafts returns.
C7_EveryItemHandled ==
  \A r \in Runs :
    (PdReturned(r) /\ runs[r].gatePassed) => runs[r].k > Len(runs[r].draftLines)

\* the open issues with the daily label and the title of the date
DailyIssuesOf(today) ==
  {n \in 1..Len(issues) : /\ issues[n].state = "open"
                          /\ DAILY_ISSUE_LABEL \in issues[n].labels
                          /\ issues[n].title = <<"Task Status", " ", today>>}

\* C8: when an open issue with the daily label and the title of the date
\* exists, a call of findOrCreateDailyIssue creates nothing and never reaches
\* its create call, and when it returns it returns the number and URL of that
\* issue, the same at every call.
C8_IdempotentLookup ==
  [][\A r \in Runs :
       (runs[r].pc = "foc_list" /\ DailyIssuesOf(runs[r].today) # {}) =>
          /\ issues' = issues
          /\ runs'[r].pc \in {"foc_list", "collect_issues", "fatal"}
          /\ runs'[r].pc = "collect_issues" =>
               /\ DailyIssuesOf(runs[r].today) = {runs'[r].dailyIssue.number}
               /\ runs'[r].dailyIssue.html_url =
                    issues[runs'[r].dailyIssue.number].html_url]_vars

\* the second run of a date has located the issue and created none
C8_Witness ==
  \E r \in Runs :
    /\ runs[r].pc = "collect_issues" /\ started = 2
    /\ DailyIssuesOf(runs[r].today) = {runs[r].dailyIssue.number}
    /\ Len(issues) = runs[r].base.issues

\* the issues, open or closed, with the daily label and the title of date d
TitledFor(d) ==
  {n \in 1..Len(issues) : /\ DAILY_ISSUE_LABEL \in issues[n].labels
                          /\ issues[n].title = <<"Task Status", " ", Dates[d]>>}

\* C9 as stated: for any date at most one issue, open or closed, carries the
\* daily label and the title of that date.
C9_TitleUniqueness_AsStated ==
  \A d \in 1..Len(Dates) : Cardinality(TitledFor(d)) <= 1

\* C9, amended: with runs that do not overlap and people who close issues,
\* for any date at most one open issue carries the daily label and the title
\* of that date.
C9_OpenTitleUniqueness ==
  \A d \in 1..Len(Dates) :
    Cardinality({n \in TitledFor(d) : issues[n].state = "open"}) <= 1

\* a closed daily issue and its open successor of the same date
C9_Witness ==
  \E d \in 1..Len(Dates) : \E n, m \in TitledFor(d) :
     issues[n].state = "closed" /\ issues[m].state = "open"

\* run r has ended after the generator failed or answered something unusable
GenerationFailedIn(r) == runs[r].pc = "done" /\ runs[r].reminderData = "null"

\* C10 as stated: in a run whose generator fails or returns malformed output
\* no summary comment is posted, and processDrafts is still invoked.
C10_DraftsStillProcessed_AsStated ==
  \A r \in Runs :
    GenerationFailedIn(r) =>
      /\ Len(comments) = runs[r].base.comments
      /\ runs[r].stages = Stages

\* C10, amended: in a run whose generator fails or returns malformed output no
\* summary comment is posted and processDrafts is not invoked either: main
\* reports sub_issues_processed "0" and returns after the generation stage,
\* with exit code 0.
C10_GenerationFailureEndsRun ==
  \A r \in Runs :
    GenerationFailedIn(r) =>
      /\ Len(comments) = runs[r].base.comments
      /\ runs[r].stages = <<"locate", "collect", "generate">>
      /\ runs[r].subIssuesProcessed = "0"
      /\ runs[r].exitCode = 0

\* a run has ended because the generator's three attempts failed
C10_Witness ==
  \E r \in Runs :
    GenerationFailedIn(r) /\ <<"openaiChatCompletion", 0>> \in runs[r].exhausted

\* the retry(...) call sites of the locator and of the collector
LocatorSites == {"listIssuesForRepo", "createIssue"}
CollectorSites == {"collectIssues", "listPulls"}

\* the sites that exhausted their retries in run r
ExhaustedSites(r) == {e[1] : e \in runs[r].exhausted}

\* run r found an identifier or a credential missing
ConfigurationError(r) ==
  \/ ~runs[r].owner
  \/ ~runs[r].token
  \/ runs[r].error = "OPENAI_API_KEY is not set"

\* C11 as stated: a run reaches the catch of main() only on a configuration
\* error or when the locator/creator exhausted its retries.
C11_OnlyConfigAndLocator_AsStated ==
  \A r \in Runs :
    runs[r].pc = "fatal" =>
      ConfigurationError(r) \/ ExhaustedSites(r) \cap LocatorSites # {}

\* C11, amended: a run reaches the catch of main() only on a configuration
\* error, when the locator/creator or the collector exhausted its retries, or
\* when the generator answered an empty reminder or empty suggestions; a
\* generator that fails, a comment that cannot be posted and a failing call
\* of processDrafts never end the run there.
C11_PropagationPolicy ==
  \A r \in Runs :
    runs[r].pc = "fatal" =>
      /\ \/ ConfigurationError(r)
         \/ ExhaustedSites(r) \cap (LocatorSites \cup CollectorSites) # {}
         \/ runs[r].reminderData = "empty_field"
      /\ ExhaustedSites(r) \subseteq LocatorSites \cup CollectorSites

\* a run has ended in the catch of main() because the collector failed
C11_Witness ==
  \E r \in Runs :
    /\ runs[r].pc = "fatal" /\ ~ConfigurationError(r)
    /\ ExhaustedSites(r) = {"listPulls"}

\* the tracker is as run r found it
TrackerUntouched(r) ==
  /\ Len(issues) = runs[r].base.issues
  /\ Len(comments) = runs[r].base.comments

\* C12 as stated: a run that ends on a missing identifier or credential
\* (owner/name, tracker token, generator key) has left the tracker unchanged.
C12_ConfigErrorBeforeAnyCall_AsStated ==
  \A r \in Runs :
    (runs[r].pc = "fatal" /\ ConfigurationError(r)) => TrackerUntouched(r)

\* C12, amended: a missing owner/name or tracker token ends the run inside
\* the locator before any tracker call, the tracker unchanged; a missing
\* generator key ends it when the generation stage begins, after the locator
\* and the collector have run, so the tracker may hold a daily issue this run
\* created, and nothing else new.
C12_ConfigErrors ==
  \A r \in Runs :
    runs[r].pc = "fatal" =>
      /\ (~runs[r].owner \/ ~runs[r].token) =>
            /\ runs[r].stages = <<"locate">>
            /\ runs[r].exhausted = {}
            /\ runs[r].dailyIssue = NoIssue
            /\ TrackerUntouched(r)
      /\ runs[r].error = "OPENAI_API_KEY is not set" =>
            /\ runs[r].stages = <<"locate", "collect", "generate">>
            /\ Len(comments) = runs[r].base.comments
            /\ Len(issues) \in {runs[r].base.issues, runs[r].base.issues + 1}
            /\ Len(issues) = runs[r].base.issues + 1 =>
                  /\ runs[r].dailyIssue.number = Len(issues)
                  /\ issues[Len(issues)].labels = {DAILY_ISSUE_LABEL}

\* a run without the generator key has ended after creating the daily issue
C12_Witness ==
  \E r \in Runs :
    /\ runs[r].pc = "fatal" /\ runs[r].error = "OPENAI_API_KEY is not set"
    /\ Len(issues) = runs[r].base.issues + 1

\* C13: for an attempt count n >= 1, retry invokes the operation at least once
\* and at most n times; it returns the value of the first successful attempt,
\* which is its last invocation; it sleeps the given delay exactly once between
\* two consecutive attempts and never after the last; and when all n attempts
\* fail it throws the error of the n-th attempt.
C13_RetryContract ==
  call.retries >= 1 =>
    LET n == call.retries
        made == Len(call.attempts)
    IN  /\ made <= n
        /\ \A j \in 1..(made - 1) : call.attempts[j] # "ok"
        /\ \A j \in 1..Len(call.slept) : call.slept[j] = call.delay
        /\ call.pc = "loop" => Len(call.slept) = made \/ (made = n /\ Len(call.slept) = n - 1)
        /\ call.pc = "sleep" => Len(call.slept) = made - 1 /\ made < n
        /\ call.pc = "returned" =>
              /\ made >= 1
              /\ call.attempts[made] = "ok"
              /\ call.result = <<"value", made>>
              /\ Len(call.slept) = made - 1
        /\ call.pc = "thrown" =>
              /\ made = n
              /\ call.attempts[n] # "ok"
              /\ call.thrown = <<call.attempts[n], n>>
              /\ Len(call.slept) = n - 1

\* three attempts have failed, with different errors, and the call has thrown
C13_Witness ==
  /\ call.pc = "thrown" /\ call.retries = 3
  /\ call.attempts[1] # call.attempts[3]

\* the positions of a run inside processDrafts
PdPositions ==
  {"pd_get", "pd_list_comments", "pd_confirm", "pd_reactions", "pd_check",
   "pd_create", "pd_reference"}

\* C14: when the posting of the summary comment has failed on all its
\* attempts, postCommentToDailyIssue has returned null, no summary comment
\* exists for the run, the run is not in the catch of main(), and
\* processDrafts has been invoked on the tracking issue in the same run.
C14_PostFailureNotFatal ==
  \A r \in Runs :
    "createComment" \in ExhaustedSites(r) =>
      /\ runs[r].comment = 0
      /\ runs[r].pc \in PdPositions \cup {"done"}
      /\ runs[r].stages = Stages
      /\ \A c \in (runs[r].base.comments + 1)..Len(comments) :
            comments[c].body # SummaryCommentBody

\* after the posting failed three times, processDrafts has counted drafts
C14_Witness ==
  \E r \in Runs :
    /\ "createComment" \in ExhaustedSites(r)
    /\ runs[r].pc = "done" /\ runs[r].stats.processed >= 1

\* the issues created as sub-issues
SubIssues == {n \in 1..Len(issues) : SUB_ISSUE_LABEL \in issues[n].labels}

\* C15 as stated: whatever runs and closings happened, no two sub-issues have
\* the same title, letter case ignored.
C15_OneSubIssuePerTitle_AsStated ==
  \A n, m \in SubIssues :
    n # m => ToLowerCase(issues[n].title) # ToLowerCase(issues[m].title)

\* C15, amended: with runs that do not overlap and people who close issues
\* and do not reopen them, no sub-issue is open beside an older open issue
\* whose title contains its title, letter case ignored; in particular no two
\* open sub-issues have the same title.
C15_OneOpenSubIssuePerTitle ==
  \A m \in SubIssues : \A n \in 1..(m - 1) :
    (issues[n].state = "open" /\ issues[m].state = "open")
      => ~ContainsIgnoringCase(issues[n].title, issues[m].title)

\* a sub-issue was closed and a later run created it again
C15_Witness ==
  \E n, m \in SubIssues :
    /\ n < m /\ issues[n].title = issues[m].title
    /\ issues[n].state = "closed" /\ issues[m].state = "open"

\* the lines of ls before its first heading
RECURSIVE RegionLines(_)
RegionLines(ls) ==
  IF ls = <<>> \/ LineKinds[Head(ls)].heading THEN <<>>
  ELSE <<Head(ls)>> \o RegionLines(Tail(ls))

\* the titles of the list items among the lines ls, in order
RECURSIVE ItemTitles(_)
ItemTitles(ls) ==
  IF ls = <<>> THEN <<>>
  ELSE (IF LineKinds[Head(ls)].title # <<>> THEN <<LineKinds[Head(ls)].title>> ELSE <<>>)
         \o ItemTitles(Tail(ls))

\* C16: the extracted titles are exactly the titles of the list items among
\* the lines between the drafts header and the next heading, in order.
C16_Extraction ==
  call.pc = "extracted" => call.titles = ItemTitles(RegionLines(call.lines))

\* the bodies without a draft: no header, nothing under the header, the
\* placeholder of the template, no list line
NoDraftBodies ==
  {BodyNoHeader, BodyEmptyRegion, BodyNoListItem}
    \cup {DailyIssueBody(Dates[d]) : d \in 1..Len(Dates)}

StageOf(pc) ==
  IF pc \in {"foc_list", "foc_create"} THEN 1
  ELSE IF pc \in {"collect_issues", "collect_pulls"} THEN 2
  ELSE IF pc = "generate" THEN 3
  ELSE IF pc = "post_comment" THEN 4
  ELSE 5

\* C18: the stages a run has entered are the first stages of locate, collect,
\* generate, post, drafts, in that order, the run being in the last of them;
\* and a run whose locator/creator exhausted its retries is in the catch of
\* main() having entered no later stage, the tracker unchanged.
C18_StageOrder ==
  \A r \in Runs :
    Active(r) =>
      /\ Len(runs[r].stages) \in 1..Len(Stages)
      /\ runs[r].stages = SubSeq(Stages, 1, Len(runs[r].stages))
      /\ runs[r].pc \notin {"done", "fatal"} => Len(runs[r].stages) = StageOf(runs[r].pc)
      /\ ExhaustedSites(r) \cap LocatorSites # {} =>
            /\ runs[r].pc = "fatal"
            /\ runs[r].stages = <<"locate">>
            /\ runs[r].reminderData = "none"
            /\ TrackerUntouched(r)

\* the creation of the daily issue has failed three times
C18_Witness ==
  \E r \in Runs : runs[r].pc = "fatal" /\ "createIssue" \in ExhaustedSites(r)

\* the tracking issue of run r lists the same title twice and nothing else
SameTitleTwice(r) ==
  LET titles == TitlesAt(r)
  IN  Len(titles) = 2 /\ titles[1] = titles[2]

\* C19: when the approved drafts of a run are the same title twice, no open
\* issue resembles it when processDrafts begins, and the first creation
\* succeeds (at most the announcement of the new issue fails), the call
\* returns {processed: 2, created: 1, existed: 1} and has created exactly one
\* issue, with that title.
C19_ReadYourWrites ==
  \A r \in Runs :
    (PdReturned(r) /\ PdExhausted(r) \subseteq {<<"createReferenceComment", 1>>}
       /\ Approved(r) /\ SameTitleTwice(r)
       /\ \A n \in 1..runs[r].base.issues :
             issues[n].state = "open"
               => ~ContainsIgnoringCase(issues[n].title, TitlesAt(r)[1])) =>
      /\ runs[r].stats = [processed |-> 2, created |-> 1, existed |-> 1]
      /\ CreatedBy(r) = {runs[r].base.issues + 1}
      /\ issues[runs[r].base.issues + 1].title = TitlesAt(r)[1]

\* the second occurrence of a title has been counted as existed
C19_Witness ==
  \E r \in Runs :
    /\ PdReturned(r) /\ Approved(r) /\ SameTitleTwice(r) /\ PdExhausted(r) = {}
    /\ runs[r].stats = [processed |-> 2, created |-> 1, existed |-> 1]

\* the approved confirmation of run r does not list the drafts of the body
ListChanged(r) ==
  /\ PriorConfirmations(r) # {}
  /\ comments[Min(PriorConfirmations(r))].body # ConfirmationBody(DraftLinesAt(r))

\* C20: when the body no longer lists what the approved confirmation comment
\* lists and no call of processDrafts exhausts its retries, the run posts no
\* new confirmation request and handles the drafts of the body as it is now:
\* each is created or counted as existed, every created issue has the title
\* of a current draft, and afterwards an open issue resembles each of them.
C20_CurrentListMaterialized ==
  \A r \in Runs :
    (PdReturned(r) /\ PdExhausted(r) = {} /\ Approved(r) /\ ListChanged(r)) =>
      /\ \A c \in (runs[r].base.comments + 1)..Len(comments) : ~BotMarkerComment(c)
      /\ runs[r].stats.processed = Len(DraftLinesAt(r))
      /\ runs[r].stats.created + runs[r].stats.existed = Len(TitlesAt(r))
      /\ runs[r].stats.created = Cardinality(CreatedBy(r))
      /\ \A n \in CreatedBy(r) : \E j \in 1..Len(TitlesAt(r)) : issues[n].title = TitlesAt(r)[j]
      /\ \A j \in 1..Len(TitlesAt(r)) : \E n \in 1..Len(issues) :
            issues[n].state = "open" /\ ContainsIgnoringCase(issues[n].title, TitlesAt(r)[j])

\* three drafts written after the request for two have been created
C20_Witness ==
  \E r \in Runs :
    /\ PdReturned(r) /\ PdExhausted(r) = {} /\ Approved(r) /\ ListChanged(r)
    /\ issues[TrackingIssue(r)].body = BodyThree
    /\ runs[r].stats = [processed |-> 3, created |-> 3, existed |-> 0]

\* a step of a run: people leave the positions of the runs alone
StepOfRun == runs' # runs

\* seq' is seq, or seq with one element appended
Appended(before, after) ==
  /\ Len(after) \in {Len(before), Len(before) + 1}
  /\ SubSeq(after, 1, Len(before)) = before

\* C21: a step of a run leaves every existing issue (title, body, labels,
\* state) and every existing comment (body, author, reactions) as it is and
\* removes none; it creates at most one new issue or one new comment, never
\* both at once.
C21_AppendOnly ==
  [][StepOfRun =>
       /\ Appended(issues, issues')
       /\ Appended(comments, comments')
       /\ issues' = issues \/ comments' = comments]_vars

\* a run has created sub-issues and comments beside older issues and comments
C21_Witness ==
  \E r \in Runs :
    /\ PdReturned(r) /\ runs[r].base.issues >= 2 /\ runs[r].base.comments >= 2
    /\ Len(issues) >= runs[r].base.issues + 2
    /\ Len(comments) >= runs[r].base.comments + 2

\* run r leaves findOrCreateDailyIssue through its create call in this step
CreatedDailyIssue(r) ==
  runs[r].pc = "foc_create" /\ runs'[r].pc = "collect_issues"

\* C22: the locator looks for the issue of the date once, before its create
\* call: a run that listed and found none creates a new open issue with the
\* tracking label and the title of the date and takes it as its tracking
\* issue, also when an overlapping run has created one since the listing; so
\* two runs that both list before either creates leave two such issues.
C22_LocatorRace ==
  [][\A r \in Runs :
       CreatedDailyIssue(r) =>
         /\ issues' = Append(issues, [title |-> <<"Task Status", " ", runs[r].today>>,
                                      body |-> DailyIssueBody(runs[r].today),
                                      labels |-> {"daily-task-summary"},
                                      state |-> "open",
                                      html_url |-> HtmlUrl(Len(issues) + 1)])
         /\ runs'[r].dailyIssue.number = Len(issues) + 1]_vars

\* two overlapping runs of the first two started hold different open issues
\* with the tracking label and the title of the same date
C22_Witness ==
  /\ started = 2
  /\ runs[1].today = runs[2].today
  /\ runs[1].dailyIssue.number # 0 /\ runs[2].dailyIssue.number # 0
  /\ runs[1].dailyIssue.number # runs[2].dailyIssue.number
  /\ {runs[1].dailyIssue.number, runs[2].dailyIssue.number}
       \subseteq DailyIssuesOf(runs[1].today)

\* the create call of a sub-issue succeeds in this step of run r
CreatedSubIssue(r) ==
  /\ runs[r].pc = "pd_create"
  /\ runs'[r] # runs[r]
  /\ runs'[r].i # runs[r].i + 1
  /\ runs'[r].exhausted = runs[r].exhausted

\* the call that posts the confirmation request succeeds in this step of run r
PostedConfirmation(r) ==
  /\ runs[r].pc = "pd_confirm" /\ runs'[r].pc = "done"
  /\ runs'[r].exhausted = runs[r].exhausted

\* the confirmation comments of issue n written by the automation
ConfirmationsOn(n) ==
  {c \in 1..Len(comments) : comments[c].issue = n /\ BotMarkerComment(c)}

\* the open sub-issues with the title t
OpenSubIssuesTitled(t) ==
  {n \in SubIssues : issues[n].state = "open" /\ issues[n].title = t}

\* C23: between the search and the write nothing looks at the tracker again:
\* a run that found no open issue resembling the draft creates the sub-issue
\* when its create call succeeds, and a run that found no confirmation
\* comment posts one when its call succeeds, whatever an overlapping run has
\* written since the search; so overlapping runs create the same sub-issue
\* twice and post two confirmation requests.
C23_DraftRace ==
  [][\A r \in Runs :
       /\ CreatedSubIssue(r) =>
            /\ runs'[r].pc = "pd_reference"
            /\ Len(issues') = Len(issues) + 1
            /\ issues'[Len(issues')].title = DraftTitle(runs[r].draftLines[runs[r].k])
            /\ issues'[Len(issues')].labels = {"sub-issue"}
            /\ issues'[Len(issues')].state = "open"
            /\ runs'[r].stats.created = runs[r].stats.created + 1
       /\ PostedConfirmation(r) =>
            /\ Len(comments') = Len(comments) + 1
            /\ comments'[Len(comments')].issue = TrackingIssue(r)
            /\ comments'[Len(comments')].userType = "Bot"
            /\ comments'[Len(comments')].body[5] = CONFIRMATION_MARKER[1]]_vars

\* the tracking issue has two confirmation requests of the automation and
\* two open sub-issues for its one draft
C23_Witness ==
  /\ Cardinality(ConfirmationsOn(1)) = 2
  /\ Cardinality(OpenSubIssuesTitled(TitleDoA)) = 2
  /\ TitlesAt(1) = <<TitleDoA>>

\* every draft of the tracking issue of run r had its sub-issue, still open,
\* when processDrafts began
Materialized(r) ==
  LET titles == TitlesAt(r)
  IN  \A j \in 1..Len(titles) : \E n \in 1..runs[r].base.issues :
         /\ SUB_ISSUE_LABEL \in issues[n].labels
         /\ issues[n].state = "open"
         /\ ToLowerCase(issues[n].title) = ToLowerCase(titles[j])

\* C24: when the N >= 1 drafts of an approved tracking issue all have their
\* sub-issues, still open, a run whose calls in processDrafts do not exhaust
\* their retries creates no issue, posts no comment in processDrafts, and
\* returns {processed: N, created: 0, existed: N}.
C24_RerunIdempotent ==
  \A r \in Runs :
    (PdReturned(r) /\ PdExhausted(r) = {} /\ Approved(r)
       /\ Len(DraftLinesAt(r)) >= 1 /\ Materialized(r)) =>
      LET n == Len(DraftLinesAt(r))
      IN  /\ runs[r].stats = [processed |-> n, created |-> 0, existed |-> n]
          /\ runs[r].subIssuesProcessed = runs[r].stats
          /\ Len(issues) = runs[r].base.issues
          /\ Len(comments) = runs[r].base.comments

\* the run after the one that created the sub-issue has counted both drafts
\* as existing
C24_Witness ==
  \E r \in Runs :
    /\ PdReturned(r) /\ PdExhausted(r) = {} /\ Approved(r) /\ Materialized(r)
    /\ started >= 2
    /\ runs[r].stats = [processed |-> 2, created |-> 0, existed |-> 2]
    /\ Cardinality(OpenSubIssuesTitled(TitleDoA)) = 1

\* run r is inside processDrafts or has returned from it
InOrAfterDrafts(r) ==
  runs[r].stages = Stages /\ runs[r].pc \in PdPositions \cup {"done"}

\* C25: at every point of processDrafts and on every return, the early ones
\* and the one of the outer catch included, created + existed <= processed,
\* created is the number of issues the call has created, each a sub-issue,
\* created = existed = 0 as long as the approval gate is not passed, and
\* main() reports the statistics as returned.
C25_Statistics ==
  \A r \in Runs :
    InOrAfterDrafts(r) =>
      LET stats == runs[r].stats
      IN  /\ stats.created + stats.existed <= stats.processed
          /\ stats.created = Len(issues) - runs[r].base.issues
          /\ \A n \in CreatedBy(r) : issues[n].labels = {SUB_ISSUE_LABEL}
          /\ ~runs[r].gatePassed => stats.created = 0 /\ stats.existed = 0
          /\ runs[r].pc = "done" => runs[r].subIssuesProcessed = stats

\* processDrafts has returned through its outer catch after creating an issue
\* and before handling every draft
C25_Witness ==
  \E r \in Runs :
    /\ PdReturned(r) /\ runs[r].gatePassed
    /\ \E k \in 2..3 : PdExhausted(r) = {<<"checkExistingIssues", k>>}
    /\ runs[r].stats.created >= 1
    /\ runs[r].stats.created + runs[r].stats.existed < runs[r].stats.processed

\* run r has started and has not completed
Running(r) == runs[r].pc \notin {"idle", "done", "fatal"}

\* the positions of the loop over the drafts, in the order of one iteration
LoopPositions == <<"pd_check", "pd_create", "pd_reference">>

LoopRank(pc) == CHOOSE j \in 1..Len(LoopPositions) : LoopPositions[j] = pc

\* in this step run r moves on inside the loop over the drafts: another
\* attempt of the same call, the next call for the same draft, a later draft,
\* or the return
LoopAdvance(r) ==
  LET rec == runs[r]
      next == runs'[r]
  IN  \/ next.pc = rec.pc /\ next.k = rec.k /\ next.i = rec.i + 1 /\ next.i < RETRIES
      \/ /\ next.pc \in {"pd_create", "pd_reference"}
         /\ LoopRank(next.pc) = LoopRank(rec.pc) + 1
         /\ next.k = rec.k /\ next.i = 0
      \/ next.pc = "pd_check" /\ next.k > rec.k /\ next.i = 0
      \/ next.pc = "done"

\* C26: a run is at its (i+1)-th attempt of a call with i < 3; inside the
\* loop over the drafts every step is another attempt, the next call for the
\* same draft, a later draft or the return, an issue is created only by the
\* create call of the current draft and a comment only by its announcement;
\* and when every call eventually returns or fails, every started run
\* eventually completes, normally or in the catch of main().
C26_Termination ==
  /\ [](\A r \in Runs : Running(r) => runs[r].i \in 0..(RETRIES - 1))
  /\ [][\A r \in Runs :
          (runs[r].pc \in {"pd_check", "pd_create", "pd_reference"} /\ runs'[r] # runs[r]) =>
             /\ LoopAdvance(r)
             /\ issues' # issues =>
                   /\ runs[r].pc = "pd_create" /\ runs'[r].pc = "pd_reference"
                   /\ Len(issues') = Len(issues) + 1
             /\ comments' # comments =>
                   /\ runs[r].pc = "pd_reference" /\ runs'[r].k > runs[r].k
                   /\ Len(comments') = Len(comments) + 1]_vars
  /\ \A r \in Runs : Running(r) ~> ~Running(r)

\* a run has completed after three failed creations of the 2nd draft and
\* three failed announcements of the 3rd
C26_Witness ==
  \E r \in Runs :
    /\ PdReturned(r)
    /\ PdExhausted(r) = {<<"createSubIssue", 2>>, <<"createReferenceComment", 3>>}
    /\ runs[r].k = 4

====
